---- MODULE Spec2Model ----
(***************************************************************************)
(* Readiness coordination and document-load orchestration of common.js     *)
(* (src/unnamed/part_000): the _commonJsReady promise, the overrideStatus  *)
(* flags, the waitForPath watchers with their polling timers, the          *)
(* minified-SDK fast path and DesktopOfflineAppDocumentEndLoad.            *)
(*                                                                         *)
(* The page is single threaded.  One step of the model is one task of the  *)
(* event loop (the script's initialisation is the initial state, a timer   *)
(* callback, an assignment made by the loading SDK, a call of the entry    *)
(* point) or one promise reaction (microtask).  No task starts while a     *)
(* reaction is queued.                                                     *)
(*                                                                         *)
(* Time is counted in scaled units: PollInterval stands for the 20 ms of   *)
(* setInterval (line 173) and MaxWait for the 10000 ms default of maxWait  *)
(* (line 141).  Timers fire exactly when they are due: the clock moves     *)
(* when the next due timer fires.                                          *)
(***************************************************************************)
EXTENDS Integers, Sequences, FiniteSets, TLC

\* Scaled polling period of waitForPath's setInterval (20 ms in the source).
PollInterval == 1

\* Scaled ceiling of waitForPath (maxWait, 10000 ms in the source).
MaxWait == 1

VARIABLES
    win,             \* the watched part of window: property name -> kind of value
    initWin,         \* win as it was when the script ran (never changes)
    now,             \* Date.now(), scaled
    overrideStatus,  \* line 78: flag per subsystem
    ready,           \* _commonJsReady is fulfilled
    listeners,       \* reactions attached to the pending promise, in order
    microtasks,      \* queued promise reactions
    watch,           \* per waitForPath call: phase, segment polled, startTime, timer
    patched,         \* per subsystem: how much of its patch routine has run
    isMinifiedSdk,   \* line 193
    aborted,         \* the script's top level ended in an uncaught exception
    entryInstalled,  \* window.DesktopOfflineAppDocumentEndLoad is this file's
    started,         \* _documentLoadStarted, line 584
    docPhase,        \* state of the orchestrator
    docData,         \* the _data argument captured by the first call
    editor,          \* Asc.editor || window.editor as the orchestrator found it
    lookup,          \* what GetOpenedFile returned to the orchestrator
    events,          \* events sent to the editor by the orchestrator, in order
    steps,           \* steps of the Resolving sequence that completed, in order
    openCalls,       \* calls of editor.openDocument
    notified,        \* per listener: how often its reaction ran
    duplicates,      \* "none", or when the entry point was first called again:
                     \* "waiting" (the first call still Waiting) or "later"
    patchOrder,      \* subsystems in the order their patch routines completed
    fireCount,       \* pending -> fulfilled transitions of _commonJsReady
    firedBy,         \* what made the call of _resolveReady that fulfilled it
    resolveCalls,    \* calls of _resolveReady
    forced,          \* force-completes performed (fast path, timeout, failed path)
    timersCreated,   \* setInterval calls made by waitForPath
    timers,          \* waitForPath calls whose interval timer is set
    callbacks,       \* per waitForPath call: invocations of its success callback
    degrades,        \* per waitForPath call: runs of its timeout or failed branch
    uncaught,        \* exceptions that left a task or reaction unhandled
    \* Base-URL resolution (lines 603-620), applied to drawn arguments
    urlArg,          \* _url
    overrideArg,     \* window._ONLYOFFICE_DOC_BASE_URL
    documentUrl,     \* AscCommon.g_oDocumentUrls.documentUrl
    effectiveUrl,    \* effectiveUrl, the url given to the opened file
    urlDone,         \* lines 603-620 have run
    \* waitForProperty (lines 93-137), applied to one property of one object
    pObj,            \* the target: "object", or "missing" (null or undefined)
    pDesc,           \* the property's descriptor: absent, data, foreign, hook
    pVal,            \* the value the property holds (what a read returns)
    pHookOwner,      \* the watcher whose interception is installed, or 0
    pPhase,          \* per watcher: unarmed, noop, hooked, polling, done
    pCalls,          \* per watcher: the values its callback was called with
    pTimers,         \* watchers whose 10 ms interval timer is set
    pCbWrite,        \* per watcher: what its callback writes to the property
    pLast,           \* the value written last, "never" before any write
    pTicks,          \* parity of the number of poll ticks that found nothing
    \* The title follow-up (lines 651-653 and 664-688)
    titlePhase,      \* idle, named (DesktopOfflineUpdateLocalName ran), sent
    sourcePath,      \* what LocalFileGetSourcePath() returned
    documentTitle,   \* _api.documentTitle
    \* The patched LoadFontAsync (lines 284-328), applied to font files
    Status,          \* per font file: this.Status
    fontCallback,    \* per font file: this.callback
    fontExternal,    \* per font file: this["externalCallback"] is set
    fontRequests,    \* per font file: requests sent (xhr.send)
    fontInFlight,    \* font files whose request awaits its onload
    fontInvoked,     \* per font file: the callbacks onload invoked, in order
    fontReturned,    \* per font file: what the last call of LoadFontAsync returned
    fontStreams,     \* AscFonts.g_fonts_streams.length
    fontCalls        \* calls of LoadFontAsync made

mainVars == <<win, initWin, now, overrideStatus, ready, listeners, microtasks,
              watch, patched, isMinifiedSdk, aborted, entryInstalled, started,
              docPhase, docData, editor, lookup, events, steps, openCalls,
              notified, duplicates, patchOrder, fireCount, firedBy,
              resolveCalls, forced, timersCreated, timers, callbacks, degrades,
              uncaught>>

urlVars == <<urlArg, overrideArg, documentUrl, effectiveUrl, urlDone>>

propVars == <<pObj, pDesc, pVal, pHookOwner, pPhase, pCalls, pTimers, pCbWrite,
              pLast, pTicks>>

titleVars == <<titlePhase, sourcePath, documentTitle>>

fontVars == <<Status, fontCallback, fontExternal, fontRequests, fontInFlight,
              fontInvoked, fontReturned, fontStreams, fontCalls>>

vars == <<mainVars, urlVars, propVars, titleVars, fontVars>>

----------------------------------------------------------------------------
\* The window

Subsystems == {"baseEditorsApi", "fonts", "sdk"}

Roots == {"AscCommon", "AscFonts"}

Leaves == {"baseEditorsApi", "CFontFileLoader", "DocumentUrls", "CDocsCoApi"}

Props == Roots \cup Leaves

\* undef: absent or undefined; null: null or another falsy value;
\* plain: an object without a prototype property; ctor: a constructor function.
Values == {"undef", "null", "plain", "ctor"}

\* What a namespace is, and what a member of a namespace is.
RootValues == {"undef", "null", "plain"}

LeafValues == {"undef", "null", "ctor"}

RootOf(p) == IF p = "CFontFileLoader" THEN "AscFonts" ELSE "AscCommon"

\* A leaf exists only on a namespace that is an object.
WellFormed(w) ==
    /\ \A r \in Roots : w[r] \in RootValues
    /\ \A l \in Leaves : w[l] \in LeafValues
    /\ \A l \in Leaves : w[l] # "undef" => w[RootOf(l)] = "plain"

Windows == {w \in [Props -> Values] : WellFormed(w)}

Truthy(v) == v \in {"plain", "ctor"}

\* obj[prop] !== undefined
Defined(v) == v # "undef"

----------------------------------------------------------------------------
\* The four waitForPath calls

Watchers == {"base", "fonts", "docurls", "coapi"}

Parts(w) ==
    CASE w = "base" -> <<"AscCommon", "baseEditorsApi">>
      [] w = "fonts" -> <<"AscFonts", "CFontFileLoader">>
      [] w = "docurls" -> <<"AscCommon", "DocumentUrls">>
      [] w = "coapi" -> <<"AscCommon", "CDocsCoApi">>

\* phase: idle (not called), polling (its interval timer is set), success (its
\* callback was called), timeout, failed.  idx, start and due are kept while
\* the timer is set: the segment polled, startTime and the next tick.
IdleWatch == [phase |-> "idle", idx |-> 0, start |-> 0, due |-> 0]

Finished(c, w, how) ==
    [c EXCEPT !.watch[w] = [phase |-> how, idx |-> 0, start |-> 0, due |-> 0]]

Jobs == {"docLoad", "encryption"}

\* _data: the empty string, a binary_content:// token, base64 text, or a value
\* that is not a string and has no indexOf (null, undefined, a number).
DataKinds == {"empty", "token", "base64", "nonstring"}

----------------------------------------------------------------------------
\* The program's state as one record, for the operators that model functions.
\* thrown: an exception is propagating out of the code that ran so far.

Cur ==
    [overrideStatus |-> overrideStatus, ready |-> ready, listeners |-> listeners,
     microtasks |-> microtasks, watch |-> watch, patched |-> patched,
     started |-> started, docPhase |-> docPhase, docData |-> docData,
     patchOrder |-> patchOrder, fireCount |-> fireCount, firedBy |-> firedBy,
     resolveCalls |-> resolveCalls, forced |-> forced,
     timersCreated |-> timersCreated, timers |-> timers,
     callbacks |-> callbacks, degrades |-> degrades, thrown |-> FALSE]

\* Lines 73-82 and 584: the state the script creates before it runs anything.
Fresh ==
    [overrideStatus |-> [s \in Subsystems |-> FALSE], ready |-> FALSE,
     listeners |-> <<>>, microtasks |-> <<>>,
     watch |-> [w \in Watchers |-> IdleWatch],
     patched |-> [s \in Subsystems |-> "none"],
     started |-> FALSE, docPhase |-> "Uninvoked", docData |-> "none",
     patchOrder |-> <<>>, fireCount |-> 0, firedBy |-> "none",
     resolveCalls |-> 0, forced |-> 0, timersCreated |-> 0, timers |-> {},
     callbacks |-> [w \in Watchers |-> 0], degrades |-> [w \in Watchers |-> 0],
     thrown |-> FALSE]

\* A mistaken _resolveReady: a hand-made notifier that fires on every call.
ResolveReadyEveryCall(e, c, who) ==
    [c EXCEPT !.ready = TRUE, !.microtasks = @ \o c.listeners,
              !.fireCount = @ + 1, !.firedBy = who,
              !.resolveCalls = @ + 1]

\* _resolveReady(): the resolve function of the promise of line 74.  The first
\* call fulfils the promise and queues the attached reactions in order; a
\* later call does nothing.
ResolveReady(e, c, who) ==
    IF c.ready
    THEN [c EXCEPT !.resolveCalls = @ + 1]
    ELSE [c EXCEPT !.ready = TRUE, !.microtasks = @ \o c.listeners,
                   !.listeners = <<>>, !.fireCount = @ + 1, !.firedBy = who,
                   !.resolveCalls = @ + 1]

\* A mistaken signal with one listener slot: a later listener replaces the
\* earlier one.
ThenSingleSlot(c, job) ==
    IF c.ready
    THEN [c EXCEPT !.microtasks = Append(@, job)]
    ELSE [c EXCEPT !.listeners = <<job>>]

\* promise.then(job): queued at once when the promise is fulfilled.
Then(c, job) ==
    IF c.ready
    THEN [c EXCEPT !.microtasks = Append(@, job)]
    ELSE [c EXCEPT !.listeners = Append(@, job)]

\* A mistaken checkAllReady: || in place of &&.
CheckAllReadyAny(e, c, who) ==
    IF \E s \in Subsystems : c.overrideStatus[s]
    THEN ResolveReady(e, c, who)
    ELSE c

\* checkAllReady, lines 84-89.  who: the caller, kept for firedBy only.
CheckAllReady(e, c, who) ==
    IF /\ c.overrideStatus["baseEditorsApi"]
       /\ c.overrideStatus["fonts"]
       /\ c.overrideStatus["sdk"]
    THEN ResolveReady(e, c, who)
    ELSE c

\* A mistaken force-complete: it marks the overrides as not completed.
ForceCompleteClears(e, c, who) ==
    CheckAllReady(e,
        [c EXCEPT !.overrideStatus = [s \in Subsystems |-> FALSE],
                  !.forced = @ + 1],
        who)

\* A mistaken force-complete: it also cancels every other watch's timer.
ForceCompleteCancelsAll(e, c, who) ==
    CheckAllReady(e,
        [c EXCEPT !.overrideStatus = [s \in Subsystems |-> TRUE],
                  !.forced = @ + 1,
                  !.timers = {},
                  !.watch = [w \in Watchers |->
                                IF c.watch[w].phase = "polling"
                                THEN [phase |-> "timeout", idx |-> 0,
                                      start |-> 0, due |-> 0]
                                ELSE c.watch[w]]],
        who)

\* The three force-complete sites (lines 163-166, 177-180, 196-199): every flag
\* set true, then checkAllReady().
ForceComplete(e, c, who) ==
    CheckAllReady(e,
        [c EXCEPT !.overrideStatus = [s \in Subsystems |-> TRUE],
                  !.forced = @ + 1],
        who)

\* The flag is set and checkAllReady() called at the end of a patch routine.
MarkReady(e, c, s) ==
    CheckAllReady(e,
        [c EXCEPT !.patched[s] = "full", !.overrideStatus[s] = TRUE,
                  !.patchOrder = Append(@, s)],
        s)

\* OVERRIDE 1, lines 205-276.  Its first statement assigns to
\* baseEditorsApi.prototype._openChartOrLocalDocument: a TypeError unless the
\* value has a prototype object.
PatchBase(e, c, v) ==
    IF v = "ctor" THEN MarkReady(e, c, "baseEditorsApi")
    ELSE [c EXCEPT !.thrown = TRUE]

\* OVERRIDE 2, lines 281-333.
PatchFonts(e, c, v) ==
    IF v = "ctor" THEN MarkReady(e, c, "fonts")
    ELSE [c EXCEPT !.thrown = TRUE]

\* OVERRIDE 3, lines 340-563: DocumentUrls.prototype is written first (352-419),
\* then AscCommon.sendImgUrls, then CDocsCoApi.prototype (433).
PatchSdk(e, c, du, co) ==
    IF du # "ctor" THEN [c EXCEPT !.thrown = TRUE]
    ELSE IF co # "ctor" THEN [c EXCEPT !.patched["sdk"] = "partial", !.thrown = TRUE]
    ELSE MarkReady(e, c, "sdk")

\* setInterval(..., 20) at lines 158-173, made while resolving segment idx.
SetInterval(e, c, w, idx) ==
    [c EXCEPT !.watch[w].phase = "polling",
              !.watch[w].idx = idx,
              !.watch[w].due = e.now + PollInterval,
              !.timersCreated = @ + 1,
              !.timers = @ \cup {w}]

\* clearInterval(checkInterval), lines 160 and 170.
ClearInterval(c, w) == [c EXCEPT !.timers = @ \ {w}]

\* The success callback of watch w is about to be called (line 148).
Succeeded(c, w) == [Finished(c, w, "success") EXCEPT !.callbacks[w] = @ + 1]

\* Watch w takes a branch that force-completes (lines 161-167, 175-180).
Degraded(c, w, how) == [Finished(c, w, how) EXCEPT !.degrades[w] = @ + 1]

\* The object reached after idx segments of w's path (window itself for 0).
ObjAt(e, w, idx) == IF idx = 0 THEN "plain" ELSE e.win[Parts(w)[idx]]

RECURSIVE Resolve(_, _, _, _)
RECURSIVE Callback(_, _, _, _)
RECURSIVE WaitForPath(_, _, _)

\* A mistaken resolve: every segment is waited for with a timer, present or
\* not.
ResolveNeverSync(e, c, w, idx) ==
    IF idx >= Len(Parts(w))
    THEN Callback(e, Succeeded(c, w), w, ObjAt(e, w, idx))
    ELSE IF Truthy(ObjAt(e, w, idx))
    THEN SetInterval(e, c, w, idx)
    ELSE ForceComplete(e, Degraded(c, w, "failed"), "failed")

\* A mistaken resolve: a null or undefined intermediate object is polled like
\* a missing property.
ResolvePollsOnNull(e, c, w, idx) ==
    IF idx >= Len(Parts(w))
    THEN Callback(e, Succeeded(c, w), w, ObjAt(e, w, idx))
    ELSE IF Truthy(ObjAt(e, w, idx)) /\ Defined(e.win[Parts(w)[idx + 1]])
    THEN Resolve(e, c, w, idx + 1)
    ELSE SetInterval(e, c, w, idx)

\* resolve(obj, idx) of waitForPath, lines 146-182.
Resolve(e, c, w, idx) ==
    IF idx >= Len(Parts(w))
    THEN Callback(e, Succeeded(c, w), w, ObjAt(e, w, idx))
    ELSE LET obj == ObjAt(e, w, idx)
             prop == Parts(w)[idx + 1]
         IN  IF Truthy(obj) /\ Defined(e.win[prop])
             THEN Resolve(e, c, w, idx + 1)
             ELSE IF Truthy(obj)
             THEN SetInterval(e, c, w, idx)
             ELSE ForceComplete(e, Degraded(c, w, "failed"), "failed")

\* The success callbacks passed to waitForPath (lines 205, 281, 338, 340).
Callback(e, c, w, v) ==
    CASE w = "base" -> PatchBase(e, c, v)
      [] w = "fonts" -> PatchFonts(e, c, v)
      [] w = "docurls" -> WaitForPath(e, c, "coapi")
      [] w = "coapi" -> PatchSdk(e, c, e.win["DocumentUrls"], v)

\* waitForPath(pathStr, callback), lines 140-185, with the default maxWait.
WaitForPath(e, c, w) ==
    Resolve(e, [c EXCEPT !.watch[w].start = e.now], w, 0)

----------------------------------------------------------------------------
\* Base-URL resolution, waitForProperty and the title follow-up are examined
\* on their own, under UrlSpec, PropSpec and LoadSpec below; under Spec their
\* variables stay idle.

UrlIdle ==
    /\ urlArg = <<>>
    /\ overrideArg = <<>>
    /\ documentUrl = <<>>
    /\ effectiveUrl = <<>>
    /\ urlDone = FALSE

PropIdle ==
    /\ pObj = "missing"
    /\ pDesc = "absent"
    /\ pVal = "undef"
    /\ pHookOwner = 0
    /\ pPhase = <<"unarmed", "unarmed">>
    /\ pCalls = << <<>>, <<>> >>
    /\ pTimers = {}
    /\ pCbWrite = <<"nowrite", "nowrite">>
    /\ pLast = "never"
    /\ pTicks = 0

TitleIdle ==
    /\ titlePhase = "idle"
    /\ sourcePath = <<>>
    /\ documentTitle = <<>>

\* The font files drawn.
Fonts == {1, 2}

\* this.Status: not loaded (the value line 286 tests for), loaded, failed,
\* loading.
NotLoaded == -1
Loaded == 0
LoadFailed == 1
Loading == 2

FontIdle ==
    /\ Status = [f \in Fonts |-> NotLoaded]
    /\ fontCallback = [f \in Fonts |-> "unset"]
    /\ fontExternal = [f \in Fonts |-> FALSE]
    /\ fontRequests = [f \in Fonts |-> 0]
    /\ fontInFlight = {}
    /\ fontInvoked = [f \in Fonts |-> <<>>]
    /\ fontReturned = [f \in Fonts |-> "nocall"]
    /\ fontStreams = 0
    /\ fontCalls = 0

----------------------------------------------------------------------------
\* The script's initialisation

\* A mistaken fast-path test: === null in place of !.
IsMinifiedSdkNullOnly(w) == Truthy(w["AscCommon"]) /\ w["baseEditorsApi"] = "null"

\* Line 193 (and again line 576): window.AscCommon && !window.AscCommon.baseEditorsApi
IsMinifiedSdk(w) == Truthy(w["AscCommon"]) /\ ~Truthy(w["baseEditorsApi"])

\* One top-level statement of the script: skipped once an exception propagates.
Stmt(c, next) == IF c.thrown THEN c ELSE next

\* Lines 72-566 and 576-953 run against window w at time 0: the fast path or
\* the three waitForPath calls in source order, then, unless the minified SDK
\* was detected, the entry point's definition and the encryption listener
\* (lines 946-948).  An exception thrown by a patch routine that runs
\* synchronously ends the script there.  The script's last statement (line
\* 951) assigns a property of AscCommon and throws when AscCommon is not an
\* object yet; everything before it has been installed by then.
ModuleInit(w) ==
    LET e  == [win |-> w, now |-> 0]
        min == IsMinifiedSdk(w)
        c1 == IF min THEN ForceComplete(e, Fresh, "fastpath") ELSE Fresh
        c2 == IF min THEN c1 ELSE WaitForPath(e, c1, "base")
        c3 == IF min THEN c2 ELSE Stmt(c2, WaitForPath(e, c2, "fonts"))
        c4 == IF min THEN c3 ELSE Stmt(c3, WaitForPath(e, c3, "docurls"))
        c5 == IF min THEN c4 ELSE Stmt(c4, Then(c4, "encryption"))
    IN  [core |-> c5, min |-> min, installed |-> ~min /\ ~c5.thrown,
         lastThrows |-> ~min /\ ~c5.thrown /\ ~Truthy(w["AscCommon"])]

Commit(c) ==
    /\ overrideStatus' = c.overrideStatus
    /\ ready' = c.ready
    /\ listeners' = c.listeners
    /\ microtasks' = c.microtasks
    /\ watch' = c.watch
    /\ patched' = c.patched
    /\ started' = c.started
    /\ docPhase' = c.docPhase
    /\ docData' = c.docData
    /\ patchOrder' = c.patchOrder
    /\ fireCount' = c.fireCount
    /\ firedBy' = c.firedBy
    /\ resolveCalls' = c.resolveCalls
    /\ forced' = c.forced
    /\ timersCreated' = c.timersCreated
    /\ timers' = c.timers
    /\ callbacks' = c.callbacks
    /\ degrades' = c.degrades
    /\ uncaught' = IF c.thrown THEN uncaught + 1 ELSE uncaught

Init ==
    \E w \in Windows :
      \E m \in {ModuleInit(w)} :
        LET c == m.core
        IN  /\ win = w
            /\ initWin = w
            /\ now = 0
            /\ editor = "unread"
            /\ lookup = "unread"
            /\ overrideStatus = c.overrideStatus
            /\ ready = c.ready
            /\ listeners = c.listeners
            /\ microtasks = c.microtasks
            /\ watch = c.watch
            /\ patched = c.patched
            /\ started = c.started
            /\ docPhase = c.docPhase
            /\ docData = c.docData
            /\ patchOrder = c.patchOrder
            /\ fireCount = c.fireCount
            /\ firedBy = c.firedBy
            /\ resolveCalls = c.resolveCalls
            /\ forced = c.forced
            /\ timersCreated = c.timersCreated
            /\ timers = c.timers
            /\ callbacks = c.callbacks
            /\ degrades = c.degrades
            /\ uncaught = (IF c.thrown \/ m.lastThrows THEN 1 ELSE 0)
            /\ isMinifiedSdk = m.min
            /\ aborted = (c.thrown \/ m.lastThrows)
            /\ entryInstalled = m.installed
            /\ events = <<>>
            /\ steps = <<>>
            /\ openCalls = 0
            /\ notified = [j \in Jobs |-> 0]
            /\ duplicates = "none"
            /\ UrlIdle
            /\ PropIdle
            /\ TitleIdle
            /\ FontIdle

----------------------------------------------------------------------------
\* Tasks and reactions

\* No reaction is queued and none is running: the event loop may start a task.
BetweenTasks == microtasks = <<>> /\ docPhase # "Resolving"

TimerActive(w) == w \in timers

\* A polling watcher can still read property p (its own path, or the path of
\* the watch its callback starts).
Observable(p) ==
    \E w \in Watchers :
        /\ TimerActive(w)
        /\ \/ p \in {Parts(w)[1], Parts(w)[2]}
           \/ w = "docurls" /\ p = "CDocsCoApi"

\* The loading SDK assigns a namespace or one of its members.  Assignments no
\* watcher can read any more are left out: nothing of the layer depends on
\* them.
SdkAssign(p, v) ==
    /\ BetweenTasks
    /\ Observable(p)
    /\ win[p] = "undef"
    /\ v # "undef"
    /\ p \in Roots => v \in RootValues
    /\ p \in Leaves => v \in LeafValues /\ win[RootOf(p)] = "plain"
    /\ win' = [win EXCEPT ![p] = v]
    /\ UNCHANGED <<initWin, now, overrideStatus, ready, listeners, microtasks,
                   watch, patched, isMinifiedSdk, aborted, entryInstalled,
                   started, docPhase, docData, editor, lookup, events,
                   openCalls, notified, duplicates, patchOrder, fireCount,
                   firedBy, resolveCalls, forced, timersCreated, uncaught,
                   steps, timers, callbacks, degrades>>
    /\ UNCHANGED <<urlVars, propVars, titleVars, fontVars>>

\* A mistaken timeout test: >= in place of >.
TimedOutEarly(t, startTime) == t - startTime >= MaxWait

\* Line 159: Date.now() - startTime > maxWait
TimedOut(t, startTime) == t - startTime > MaxWait

\* A mistaken timer callback: the timeout branch does not return, and the
\* presence test runs after it.
PollTickFallsThrough(e, c, w) ==
    LET idx == c.watch[w].idx
        prop == Parts(w)[idx + 1]
        t == IF TimedOut(e.now, c.watch[w].start)
             THEN ForceComplete(e, Degraded(ClearInterval(c, w), w, "timeout"),
                                "timeout")
             ELSE c
    IN  IF Defined(e.win[prop])
        THEN Resolve(e, ClearInterval(t, w), w, idx + 1)
        ELSE IF w \in t.timers
        THEN [t EXCEPT !.watch[w].due = e.now + PollInterval]
        ELSE t

\* A mistaken timer callback: the presence test comes before the timeout test.
PollTickPresenceFirst(e, c, w) ==
    IF Defined(e.win[Parts(w)[c.watch[w].idx + 1]])
    THEN Resolve(e, ClearInterval(c, w), w, c.watch[w].idx + 1)
    ELSE IF TimedOut(e.now, c.watch[w].start)
    THEN ForceComplete(e, Degraded(ClearInterval(c, w), w, "timeout"), "timeout")
    ELSE [c EXCEPT !.watch[w].due = e.now + PollInterval]

\* A mistaken timer callback: the fast-path test is made again at every tick.
PollTickRechecksFastPath(e, c, w) ==
    IF IsMinifiedSdk(e.win)
    THEN ForceComplete(e, Degraded(ClearInterval(c, w), w, "timeout"), "fastpath")
    ELSE IF TimedOut(e.now, c.watch[w].start)
    THEN ForceComplete(e, Degraded(ClearInterval(c, w), w, "timeout"), "timeout")
    ELSE IF Defined(e.win[Parts(w)[c.watch[w].idx + 1]])
    THEN Resolve(e, ClearInterval(c, w), w, c.watch[w].idx + 1)
    ELSE [c EXCEPT !.watch[w].due = e.now + PollInterval]

\* The setInterval callback of waitForPath, lines 158-173.
PollTick(e, c, w) ==
    LET prop == Parts(w)[c.watch[w].idx + 1]
    IN  IF TimedOut(e.now, c.watch[w].start)
        THEN ForceComplete(e, Degraded(ClearInterval(c, w), w, "timeout"),
                           "timeout")
        ELSE IF Defined(e.win[prop])
        THEN Resolve(e, ClearInterval(c, w), w, c.watch[w].idx + 1)
        ELSE [c EXCEPT !.watch[w].due = e.now + PollInterval]

\* The timer of watch w is the next one due (or one of them).
NextDue(w) ==
    /\ TimerActive(w)
    /\ \A v \in Watchers : TimerActive(v) => watch[w].due <= watch[v].due

\* The clock reaches the due time of w's timer and its callback runs.
Tick(w) ==
    /\ BetweenTasks
    /\ NextDue(w)
    /\ now' = watch[w].due
    /\ \E c \in {PollTick([win |-> win, now |-> watch[w].due], Cur, w)} :
           Commit(c)
    /\ UNCHANGED <<win, initWin, isMinifiedSdk, aborted, entryInstalled,
                   editor, lookup, events, steps, openCalls, notified,
                   duplicates>>
    /\ UNCHANGED <<urlVars, propVars, titleVars, fontVars>>

----------------------------------------------------------------------------
\* The document-load entry point

\* A mistaken suspension point: the body is queued without the promise.
AwaitReadyNoWait(c, job) == [c EXCEPT !.microtasks = Append(@, job)]

\* Line 594: window._commonJsReady.then(function() { ... })
AwaitReady(c, job) == Then(c, job)

\* A mistaken entry point: a load that halted may be started again.
DocumentEndLoadRetries(c, data) ==
    IF c.started /\ c.docPhase # "Halted"
    THEN c
    ELSE AwaitReady([c EXCEPT !.started = TRUE, !.docPhase = "Waiting",
                              !.docData = data],
                    "docLoad")

\* A mistaken entry point: the guard is set by a completed load only.
DocumentEndLoadGuardsCompleted(c, data) ==
    IF c.docPhase = "Dispatched"
    THEN c
    ELSE AwaitReady([c EXCEPT !.started = TRUE, !.docPhase = "Waiting",
                              !.docData = data],
                    "docLoad")

\* A mistaken entry point: no _documentLoadStarted guard.
DocumentEndLoadUnguarded(c, data) ==
    AwaitReady([c EXCEPT !.started = TRUE, !.docPhase = "Waiting",
                         !.docData = data],
               "docLoad")

\* DesktopOfflineAppDocumentEndLoad(_url, _data, _len), lines 585-594: the part
\* that runs in the caller's task.
DesktopOfflineAppDocumentEndLoad(c, data) ==
    IF c.started
    THEN c
    ELSE AwaitReady([c EXCEPT !.started = TRUE, !.docPhase = "Waiting",
                              !.docData = data],
                    "docLoad")

\* The host calls the entry point, any number of times.  The calls after the
\* second are left out: the guard makes each of them a step that changes
\* nothing.
Invoke(data) ==
    /\ BetweenTasks
    /\ entryInstalled
    /\ ~started \/ duplicates = "none"
    /\ duplicates' = IF ~started \/ duplicates # "none" THEN duplicates
                      ELSE IF docPhase = "Waiting" THEN "waiting"
                      ELSE "later"
    /\ \E c \in {DesktopOfflineAppDocumentEndLoad(Cur, data)} : Commit(c)
    /\ UNCHANGED <<win, initWin, now, isMinifiedSdk, aborted, entryInstalled,
                   editor, lookup, events, steps, openCalls, notified>>
    /\ UNCHANGED <<urlVars, propVars, titleVars, fontVars>>

\* The next queued reaction starts.  The body of the document load enters
\* Resolving (line 595); setupEncryption (lines 888-942) runs to its end.
RunReaction ==
    /\ docPhase # "Resolving"
    /\ microtasks # <<>>
    /\ microtasks' = Tail(microtasks)
    /\ notified' = [notified EXCEPT ![Head(microtasks)] = @ + 1]
    /\ docPhase' = IF Head(microtasks) = "docLoad" THEN "Resolving" ELSE docPhase
    /\ UNCHANGED <<win, initWin, now, overrideStatus, ready, listeners, watch,
                   patched, isMinifiedSdk, aborted, entryInstalled, started,
                   docData, editor, lookup, events, steps, openCalls,
                   duplicates, patchOrder, fireCount, firedBy, resolveCalls,
                   forced, timersCreated, timers, callbacks, degrades,
                   uncaught>>
    /\ UNCHANGED <<urlVars, propVars, titleVars, fontVars>>

\* editor.sendEvent("asc_onError", c_oAscError.ID.ConvertationOpenError,
\* c_oAscError.Level.Critical), lines 626 and 636.
ErrorEvent ==
    [name |-> "asc_onError", id |-> "ConvertationOpenError", level |-> "Critical"]

\* The other events the sequence sends carry no error classification.
PlainEvent(n) == [name |-> n, id |-> "none", level |-> "none"]

\* The call of the sequence that the environment makes fail (throw), if any:
\* the host bridge's CheckUserId or GetOpenedFile, or the post-open hook.
Faults == {"none", "CheckUserId", "GetOpenedFile", "DesktopAfterOpen"}

\* What one run of the sequence did: where it stopped, the steps it completed,
\* the events it sent, what GetOpenedFile returned and how often it called
\* editor.openDocument.
Outcome(phase, st, ev, lk, op) ==
    [phase |-> phase, steps |-> st, events |-> ev, lookup |-> lk, opened |-> op]

\* A mistaken editor test: a missing editor is not detected.
EditorMissingNever(ed) == FALSE

\* Line 598: if (!editor)
EditorMissing(ed) == ed # "present"

\* A mistaken empty test: == null in place of === "".
PayloadEmptyLoose(data) == data = "nonstring"

\* Line 625: if (_data === "")
PayloadEmpty(data) == data = "empty"

\* A mistaken buffer test: a missing buffer is not detected.
LookupFailedNever(buf) == FALSE

\* Lines 633-638: if (bufferArray) ... else: the lookup returned nothing.
LookupFailed(buf) == buf # "data"

\* Lines 603-623: the base URL written, editor.setOpenedAt, the user id taken
\* from CheckUserId.
SessionSteps == <<"documentUrl", "setOpenedAt", "CheckUserId">>

\* A mistaken order: the title follow-up is scheduled before the document is
\* handed over.
OpenStepsTimerFirst == <<"setTimeout", "openDocument", "asc_SetFastCollaborative">>

\* Lines 645-653.
OpenSteps == <<"openDocument", "asc_SetFastCollaborative", "setTimeout">>

\* Lines 655-657: DesktopAfterOpen sends asc_onSpellCheckInit (line 878).
FinalSteps == <<"DesktopAfterOpen", "asc_onSpellCheckInit", "asc_onDocumentPassword">>

\* A mistaken follow-up: the name is sent inside the run, before the post-open
\* hook, instead of from a timer.
OpenResultInlineName(st, lk, fault) ==
    IF fault = "DesktopAfterOpen"
    THEN Outcome("Thrown", st \o OpenSteps, <<PlainEvent("asc_onDocumentName")>>,
                 lk, 1)
    ELSE Outcome("Dispatched", st \o OpenSteps \o FinalSteps,
                 <<PlainEvent("asc_onDocumentName"),
                   PlainEvent("asc_onSpellCheckInit"),
                   PlainEvent("asc_onDocumentPassword")>>, lk, 1)

\* Lines 641-657, once the payload is resolved after the steps st.
OpenResult(st, lk, fault) ==
    IF fault = "DesktopAfterOpen"
    THEN Outcome("Thrown", st \o OpenSteps, <<>>, lk, 1)
    ELSE Outcome("Dispatched", st \o OpenSteps \o FinalSteps,
                 <<PlainEvent("asc_onSpellCheckInit"),
                   PlainEvent("asc_onDocumentPassword")>>, lk, 1)

\* A mistaken failure report: the return after sendEvent is missing and the
\* sequence goes on to open the document.
ReportOpenErrorNoReturn(st, lk) ==
    [OpenResult(st \o <<"asc_onError">>, lk, "none") EXCEPT
        !.phase = "Halted", !.events = <<ErrorEvent>> \o @]

\* Lines 626-627 and 636-637: the critical open error is sent and the
\* sequence returns, after the steps st.
ReportOpenError(st, lk) ==
    Outcome("Halted", st \o <<"asc_onError">>, <<ErrorEvent>>, lk, 0)

\* The Resolving sequence, lines 595-657, run to its end with editor ed
\* ("absent" or "present"), GetOpenedFile returning buf ("none" or "data") and
\* the call named by fault throwing.  Nothing in the sequence catches an
\* exception: _data.indexOf throws on a value without indexOf (line 631).
ResolvingResult(ed, data, buf, fault) ==
    IF EditorMissing(ed)
    THEN Outcome("Halted", <<>>, <<>>, "unread", 0)
    ELSE IF fault = "CheckUserId"
    THEN Outcome("Thrown", <<"documentUrl", "setOpenedAt">>, <<>>, "unread", 0)
    ELSE IF PayloadEmpty(data)
    THEN ReportOpenError(SessionSteps, "unread")
    ELSE IF data = "nonstring"
    THEN Outcome("Thrown", SessionSteps, <<>>, "unread", 0)
    ELSE IF data = "token"
    THEN IF fault = "GetOpenedFile"
         THEN Outcome("Thrown", SessionSteps, <<>>, "threw", 0)
         ELSE IF LookupFailed(buf)
         THEN ReportOpenError(SessionSteps \o <<"GetOpenedFile">>, buf)
         ELSE OpenResult(SessionSteps \o <<"GetOpenedFile", "Uint8Array">>, buf,
                         fault)
    ELSE OpenResult(SessionSteps \o <<"getBinaryArray">>, "unread", fault)

\* What the environment decides for one run of the sequence: the editor, the
\* buffer GetOpenedFile returns, the call that fails.  An input the sequence
\* cannot read is held at one value: without an editor nothing is called,
\* GetOpenedFile is called for a token only and returns nothing when it
\* throws, and the post-open hook is not reached with an empty or non-string
\* payload.
Environments(data) ==
    {x \in [ed : {"absent", "present"}, buf : {"none", "data"}, fault : Faults] :
        /\ x.ed = "absent" => x.buf = "none" /\ x.fault = "none"
        /\ data # "token" => x.buf = "none" /\ x.fault # "GetOpenedFile"
        /\ x.fault \in {"CheckUserId", "GetOpenedFile"} => x.buf = "none"
        /\ data \in {"empty", "nonstring"} => x.fault \in {"none", "CheckUserId"}}

ResolvingSteps ==
    /\ docPhase = "Resolving"
    /\ \E x \in Environments(docData) :
           LET r == ResolvingResult(x.ed, docData, x.buf, x.fault)
           IN  /\ editor' = x.ed
               /\ lookup' = r.lookup
               /\ docPhase' = r.phase
               /\ events' = events \o r.events
               /\ steps' = steps \o r.steps
               /\ openCalls' = openCalls + r.opened
               /\ uncaught' = IF r.phase = "Thrown" THEN uncaught + 1 ELSE uncaught
    /\ UNCHANGED <<win, initWin, now, overrideStatus, ready, listeners,
                   microtasks, watch, patched, isMinifiedSdk, aborted,
                   entryInstalled, started, docData, notified, duplicates,
                   patchOrder, fireCount, firedBy, resolveCalls, forced,
                   timersCreated, timers, callbacks, degrades>>
    /\ UNCHANGED <<urlVars, propVars, titleVars, fontVars>>

Next ==
    \/ \E p \in Props, v \in Values : SdkAssign(p, v)
    \/ \E w \in Watchers : Tick(w)
    \/ \E d \in DataKinds : Invoke(d)
    \/ RunReaction
    \/ ResolvingSteps

Spec == Init /\ [][Next]_vars

\* Due timers fire and queued reactions run.
FairSpec ==
    /\ Spec
    /\ \A w \in Watchers : WF_vars(Tick(w))
    /\ WF_vars(RunReaction)
    /\ WF_vars(ResolvingSteps)

----------------------------------------------------------------------------
\* Base-URL resolution, lines 603-620, as a function of its two inputs.
\* Strings are sequences of characters.

\* Longest locator drawn.
MaxUrlLen == 4

\* Longest override base URL drawn.
MaxOverrideLen == 2

\* "C" stands for the letters, "1" for the digits and + . - (the characters
\* the pattern of line 613 allows after the first), then the colon and the
\* two separators.
UrlChars == {"C", "1", ":", "/", "\\"}

OverrideChars == {"C", "/"}

\* [a-zA-Z]: the letter drawn in locators and the letters of "file".
Letters == {"C", "f", "i", "l", "e"}

\* [a-zA-Z0-9+.-]
SchemeChars == Letters \cup {"1"}

Strings(chars, n) == UNION {[1..k -> chars] : k \in 0..n}

\* Line 613: /^[a-zA-Z][a-zA-Z0-9+.-]*:/.test(s)
HasScheme(s) ==
    \E k \in 2..Len(s) :
        /\ s[k] = ":"
        /\ s[1] \in Letters
        /\ \A i \in 2..(k - 1) : s[i] \in SchemeChars

\* Line 615: s.indexOf("/") != 0 is false.
StartsWithSlash(s) == Len(s) > 0 /\ s[1] = "/"

\* "file://", line 617.
FileScheme == <<"f", "i", "l", "e", ":", "/", "/">>

\* Lines 607-608: one trailing "/" removed.
StripTrailingSlash(o) ==
    IF Len(o) > 0 /\ o[Len(o)] = "/" THEN SubSeq(o, 1, Len(o) - 1) ELSE o

\* A mistaken normalization: the test for a scheme is missing.
NormalizeLocatorAlwaysPrefixes(url) ==
    FileScheme \o (IF StartsWithSlash(url) THEN url ELSE <<"/">> \o url)

\* Lines 612-618: the locator when no override is given.
NormalizeLocator(url) ==
    IF HasScheme(url) THEN url
    ELSE FileScheme \o (IF StartsWithSlash(url) THEN url ELSE <<"/">> \o url)

\* A mistaken resolution: the override is normalized like a locator.
ResolveDocumentUrlNormalizesAll(url, override) ==
    IF override # <<>> THEN NormalizeLocator(StripTrailingSlash(override))
    ELSE NormalizeLocator(url)

\* Lines 603-620: documentUrl and effectiveUrl receive the same string.  An
\* override that is the empty string (or undefined) is falsy.
ResolveDocumentUrl(url, override) ==
    IF override # <<>> THEN StripTrailingSlash(override) ELSE NormalizeLocator(url)

\* The rest of the script's state while a function is examined on its own:
\* as it is before the script runs.
MainIdle ==
    /\ win = [p \in Props |-> "undef"]
    /\ initWin = [p \in Props |-> "undef"]
    /\ now = 0
    /\ overrideStatus = Fresh.overrideStatus
    /\ ready = FALSE
    /\ listeners = <<>>
    /\ microtasks = <<>>
    /\ watch = Fresh.watch
    /\ patched = Fresh.patched
    /\ isMinifiedSdk = FALSE
    /\ aborted = FALSE
    /\ entryInstalled = FALSE
    /\ started = FALSE
    /\ docPhase = "Uninvoked"
    /\ docData = "none"
    /\ editor = "unread"
    /\ lookup = "unread"
    /\ events = <<>>
    /\ steps = <<>>
    /\ openCalls = 0
    /\ notified = [j \in Jobs |-> 0]
    /\ duplicates = "none"
    /\ patchOrder = <<>>
    /\ fireCount = 0
    /\ firedBy = "none"
    /\ resolveCalls = 0
    /\ forced = 0
    /\ timersCreated = 0
    /\ timers = {}
    /\ callbacks = Fresh.callbacks
    /\ degrades = Fresh.degrades
    /\ uncaught = 0

UrlInit ==
    /\ MainIdle
    /\ PropIdle
    /\ TitleIdle
    /\ FontIdle
    /\ urlArg \in Strings(UrlChars, MaxUrlLen)
    /\ overrideArg \in Strings(OverrideChars, MaxOverrideLen)
    /\ documentUrl = <<>>
    /\ effectiveUrl = <<>>
    /\ urlDone = FALSE

\* Lines 603-620 run on the drawn arguments.
ResolveBaseUrl ==
    /\ ~urlDone
    /\ documentUrl' = ResolveDocumentUrl(urlArg, overrideArg)
    /\ effectiveUrl' = ResolveDocumentUrl(urlArg, overrideArg)
    /\ urlDone' = TRUE
    /\ UNCHANGED <<urlArg, overrideArg, mainVars, propVars, titleVars, fontVars>>

UrlNext == ResolveBaseUrl

UrlSpec == UrlInit /\ [][UrlNext]_vars

----------------------------------------------------------------------------
\* waitForProperty, lines 93-137, applied to one property of one target by up
\* to two callers.  The script defines the function and never calls it.

PWatchers == {1, 2}

\* What the property can hold: undefined, null, an object.
PValues == {"undef", "null", "a"}

\* What a callback does with the property when it is called: nothing, or it
\* writes the object "b" (the first time it is called).
CbWrites == {"nowrite", "b"}

\* The property's state as one record, for the operators below.
PCur ==
    [desc |-> pDesc, val |-> pVal, owner |-> pHookOwner, phase |-> pPhase,
     calls |-> pCalls, timers |-> pTimers, cbWrite |-> pCbWrite, last |-> pLast]

\* obj[prop]: the data value, what the other party's getter returns, or the
\* interception's own variable (line 107, undefined until the first write).
PRead(s) == s.val

RECURSIVE PAssign(_, _)
RECURSIVE PCallback(_, _, _)
RECURSIVE HookSet(_, _)

\* callback(v) of caller w.
PCallback(s, w, v) ==
    LET t == [s EXCEPT !.calls[w] = Append(@, v), !.phase[w] = "done"]
    IN  IF s.cbWrite[w] # "nowrite" /\ s.calls[w] = <<>>
        THEN PAssign(t, s.cbWrite[w])
        ELSE t

\* A mistaken setter: the callback is called before the property is restored.
HookSetCallbackFirst(s, v) ==
    LET t == PCallback([s EXCEPT !.val = v], s.owner, v)
    IN  [t EXCEPT !.val = v, !.desc = "data", !.owner = 0]

\* The set function of the interception, lines 124-133: the property is
\* redefined as a plain data property holding newValue, then callback(newValue).
HookSet(s, v) ==
    PCallback([s EXCEPT !.val = v, !.desc = "data", !.owner = 0], s.owner, v)

\* obj[prop] = v.  An accessor of another party stores what it is given.
PAssign(s, v) ==
    IF s.desc = "hook"
    THEN HookSet([s EXCEPT !.last = v], v)
    ELSE [s EXCEPT !.last = v, !.val = v,
                   !.desc = IF s.desc = "absent" THEN "data" ELSE s.desc]

\* A mistaken waitForProperty: an interception found on the property is
\* replaced by a new one.
WaitForPropertyReplacesHook(s, obj, w) ==
    IF obj = "missing"
    THEN [s EXCEPT !.phase[w] = "noop"]
    ELSE IF PRead(s) # "undef"
    THEN PCallback(s, w, PRead(s))
    ELSE IF s.desc = "foreign"
    THEN [s EXCEPT !.timers = @ \cup {w}, !.phase[w] = "polling"]
    ELSE [s EXCEPT !.desc = "hook", !.owner = w, !.val = "undef",
                   !.phase[w] = "hooked"]

\* A mistaken waitForProperty: the test of the target is missing, and reading
\* a property of null or undefined throws.
WaitForPropertyUnguarded(s, obj, w) ==
    IF obj = "missing"
    THEN [s EXCEPT !.phase[w] = "threw"]
    ELSE IF PRead(s) # "undef"
    THEN PCallback(s, w, PRead(s))
    ELSE IF s.desc \in {"foreign", "hook"}
    THEN [s EXCEPT !.timers = @ \cup {w}, !.phase[w] = "polling"]
    ELSE [s EXCEPT !.desc = "hook", !.owner = w, !.val = "undef",
                   !.phase[w] = "hooked"]

\* waitForProperty(obj, prop, callback) called by w, lines 93-137.
WaitForProperty(s, obj, w) ==
    IF obj = "missing"
    THEN [s EXCEPT !.phase[w] = "noop"]
    ELSE IF PRead(s) # "undef"
    THEN PCallback(s, w, PRead(s))
    ELSE IF s.desc \in {"foreign", "hook"}
    THEN [s EXCEPT !.timers = @ \cup {w}, !.phase[w] = "polling"]
    ELSE [s EXCEPT !.desc = "hook", !.owner = w, !.val = "undef",
                   !.phase[w] = "hooked"]

\* A mistaken timer callback: the timer is not cleared.
PropPollTickKeepsTimer(s, w) ==
    IF PRead(s) # "undef" THEN PCallback(s, w, PRead(s)) ELSE s

\* The setInterval callback of lines 112-117.
PropPollTick(s, w) ==
    IF PRead(s) # "undef"
    THEN PCallback([s EXCEPT !.timers = @ \ {w}], w, PRead(s))
    ELSE s

PCommit(s) ==
    /\ pDesc' = s.desc
    /\ pVal' = s.val
    /\ pHookOwner' = s.owner
    /\ pPhase' = s.phase
    /\ pCalls' = s.calls
    /\ pTimers' = s.timers
    /\ pLast' = s.last

\* The inputs: the target, the property as the caller finds it (absent, a data
\* property, or an accessor installed by another party) and what each
\* callback does.
PropInit ==
    /\ MainIdle
    /\ UrlIdle
    /\ TitleIdle
    /\ FontIdle
    /\ pObj \in {"object", "missing"}
    /\ pDesc \in {"absent", "data", "foreign"}
    /\ pVal \in PValues
    /\ pDesc = "absent" => pVal = "undef"
    /\ pObj = "missing" => pDesc = "absent"
    /\ pHookOwner = 0
    /\ pPhase = [w \in PWatchers |-> "unarmed"]
    /\ pCalls = [w \in PWatchers |-> <<>>]
    /\ pTimers = {}
    /\ pCbWrite \in [PWatchers -> CbWrites]
    /\ pLast = "never"
    /\ pTicks = 0

\* Caller w calls waitForProperty.
Arm(w) ==
    /\ pPhase[w] = "unarmed"
    /\ \E s \in {WaitForProperty(PCur, pObj, w)} : PCommit(s)
    /\ UNCHANGED <<pObj, pCbWrite, pTicks, mainVars, urlVars, titleVars, fontVars>>

\* The SDK (or anyone) assigns the property.
PropWrite(v) ==
    /\ pObj = "object"
    /\ \E s \in {PAssign(PCur, v)} : PCommit(s)
    /\ UNCHANGED <<pObj, pCbWrite, pTicks, mainVars, urlVars, titleVars, fontVars>>

\* The 10 ms timer of caller w fires.
PropTick(w) ==
    /\ w \in pTimers
    /\ \E s \in {PropPollTick(PCur, w)} : PCommit(s)
    /\ pTicks' = IF PRead(PCur) = "undef" THEN 1 - pTicks ELSE pTicks
    /\ UNCHANGED <<pObj, pCbWrite, mainVars, urlVars, titleVars, fontVars>>

PropNext ==
    \/ \E w \in PWatchers : Arm(w)
    \/ \E v \in PValues : PropWrite(v)
    \/ \E w \in PWatchers : PropTick(w)

PropSpec == PropInit /\ [][PropNext]_vars

\* A timer that is set fires.
FairPropSpec == PropSpec /\ \A w \in PWatchers : WF_vars(PropTick(w))

----------------------------------------------------------------------------
\* The title follow-up: the setTimeout of lines 651-653 and
\* DesktopOfflineUpdateLocalName, lines 664-688, in a page whose SDK was
\* loaded when the script ran.

\* Longest source path drawn.
MaxPathLen == 3

\* "a" stands for every character that is not a separator.
PathChars == {"a", "/", "\\"}

\* The sentinel of lines 670-673.
NoIndex == 1000000

\* s.lastIndexOf(ch): counted from 0, -1 when ch does not occur.
LastIndexOf(s, ch) ==
    LET I == {i \in 1..Len(s) : s[i] = ch}
    IN  IF I = {} THEN -1 ELSE (CHOOSE i \in I : \A j \in I : j <= i) - 1

Min(a, b) == IF a <= b THEN a ELSE b

\* Lines 665-677: _name after the substring.
DisplayTitle(name) ==
    LET ind1 == IF LastIndexOf(name, "\\") = -1 THEN NoIndex
                ELSE LastIndexOf(name, "\\")
        ind2 == IF LastIndexOf(name, "/") = -1 THEN NoIndex
                ELSE LastIndexOf(name, "/")
        ind == Min(ind1, ind2)
    IN  IF ind # NoIndex THEN SubSeq(name, ind + 2, Len(name)) ELSE name

\* Every watched object is a constructor when the script runs: the three
\* patch routines run inside the script and the signal has fired.
LoadedWindow == [p \in Props |-> IF p \in Roots THEN "plain" ELSE "ctor"]

LoadInit == Init /\ win = LoadedWindow

\* The timer of line 651 fires (500 ms after the run that set it):
\* DesktopOfflineUpdateLocalName reads the source path, stores the title,
\* sets the timer of line 683 and calls SetDocumentName.
UpdateLocalName ==
    /\ BetweenTasks
    /\ "setTimeout" \in {steps[i] : i \in 1..Len(steps)}
    /\ titlePhase = "idle"
    /\ \E path \in Strings(PathChars, MaxPathLen) :
           /\ sourcePath' = path
           /\ documentTitle' = DisplayTitle(path)
    /\ titlePhase' = "named"
    /\ UNCHANGED <<mainVars, urlVars, propVars, fontVars>>

\* The timer of line 683 fires (100 ms later): asc_onDocumentName is sent.
SendDocumentName ==
    /\ BetweenTasks
    /\ titlePhase = "named"
    /\ titlePhase' = "sent"
    /\ events' = Append(events, PlainEvent("asc_onDocumentName"))
    /\ UNCHANGED <<win, initWin, now, overrideStatus, ready, listeners,
                   microtasks, watch, patched, isMinifiedSdk, aborted,
                   entryInstalled, started, docPhase, docData, editor, lookup,
                   steps, openCalls, notified, duplicates, patchOrder,
                   fireCount, firedBy, resolveCalls, forced, timersCreated,
                   timers, callbacks, degrades, uncaught>>
    /\ UNCHANGED <<sourcePath, documentTitle, urlVars, propVars, fontVars>>

LoadNext ==
    \/ \E d \in DataKinds : Invoke(d)
    \/ RunReaction
    \/ ResolvingSteps
    \/ UpdateLocalName
    \/ SendDocumentName

LoadSpec == LoadInit /\ [][LoadNext]_vars

----------------------------------------------------------------------------
\* The patched CFontFileLoader.prototype.LoadFontAsync, lines 284-328, on the
\* font files of a loader whose files are not loaded yet.

\* Calls of LoadFontAsync examined.
MaxFontCalls == 3

\* The callback argument: null (or undefined), or one of two functions.
FontCallbacks == {"null", "cbA", "cbB"}

\* The response status line 303 tests for, and one other.
HttpOk == 200
HttpStatuses == {HttpOk, 404}

FCur ==
    [Status |-> Status, callback |-> fontCallback, requests |-> fontRequests,
     inFlight |-> fontInFlight, invoked |-> fontInvoked,
     returned |-> fontReturned, streams |-> fontStreams]

\* A mistaken LoadFontAsync: the test of Status is missing.
LoadFontAsyncIgnoresStatus(s, f, cb) ==
    [s EXCEPT !.callback[f] = cb,
              !.Status[f] = Loading,
              !.requests[f] = @ + 1,
              !.inFlight = @ \cup {f},
              !.returned[f] = "undefined"]

\* Lines 284-326: font file f is asked to load with callback cb.
LoadFontAsync(s, f, cb) ==
    IF s.Status[f] # NotLoaded
    THEN [s EXCEPT !.callback[f] = cb, !.returned[f] = "true"]
    ELSE [s EXCEPT !.callback[f] = cb,
                   !.Status[f] = Loading,
                   !.requests[f] = @ + 1,
                   !.inFlight = @ \cup {f},
                   !.returned[f] = "undefined"]

\* Lines 319-322: the stored callback unless it is null, then the external
\* callback if one is set.
InvokedOnLoad(s, f) ==
    (IF s.callback[f] # "null" THEN <<s.callback[f]>> ELSE <<>>)
        \o (IF fontExternal[f] THEN <<"external">> ELSE <<>>)

\* Lines 302-323: the request of font file f is answered with status.
OnLoad(s, f, status) ==
    IF status # HttpOk
    THEN [s EXCEPT !.Status[f] = LoadFailed, !.inFlight = @ \ {f}]
    ELSE [s EXCEPT !.Status[f] = Loaded,
                   !.inFlight = @ \ {f},
                   !.streams = @ + 1,
                   !.invoked[f] = @ \o InvokedOnLoad(s, f)]

FCommit(s) ==
    /\ Status' = s.Status
    /\ fontCallback' = s.callback
    /\ fontRequests' = s.requests
    /\ fontInFlight' = s.inFlight
    /\ fontInvoked' = s.invoked
    /\ fontReturned' = s.returned
    /\ fontStreams' = s.streams

FontInit ==
    /\ MainIdle
    /\ UrlIdle
    /\ PropIdle
    /\ TitleIdle
    /\ Status = [f \in Fonts |-> NotLoaded]
    /\ fontCallback = [f \in Fonts |-> "unset"]
    /\ fontExternal \in [Fonts -> BOOLEAN]
    /\ fontRequests = [f \in Fonts |-> 0]
    /\ fontInFlight = {}
    /\ fontInvoked = [f \in Fonts |-> <<>>]
    /\ fontReturned = [f \in Fonts |-> "nocall"]
    /\ fontStreams = 0
    /\ fontCalls = 0

\* The SDK calls LoadFontAsync on font file f.
CallLoadFontAsync(f, cb) ==
    /\ fontCalls < MaxFontCalls
    /\ \E s \in {LoadFontAsync(FCur, f, cb)} : FCommit(s)
    /\ fontCalls' = fontCalls + 1
    /\ UNCHANGED <<fontExternal, mainVars, urlVars, propVars, titleVars>>

\* The onload handler of the request of font file f runs.
FontResponse(f, status) ==
    /\ f \in fontInFlight
    /\ \E s \in {OnLoad(FCur, f, status)} : FCommit(s)
    /\ UNCHANGED <<fontCalls, fontExternal, mainVars, urlVars, propVars,
                   titleVars>>

FontNext ==
    \/ \E f \in Fonts, cb \in FontCallbacks : CallLoadFontAsync(f, cb)
    \/ \E f \in Fonts, status \in HttpStatuses : FontResponse(f, status)

FontSpec == FontInit /\ [][FontNext]_vars

----------------------------------------------------------------------------
\* Properties

AllFlags == \A s \in Subsystems : overrideStatus[s]

SeqRange(q) == {q[i] : i \in 1..Len(q)}

\* The body of the document load has started.
BodyStarted == docPhase \in {"Resolving", "Dispatched", "Halted", "Thrown"}

\* C1: whatever the order in which the three patch routines complete, the
\* completion signal fires exactly once, by the call made by the last of them
\* (unless a force-complete fired it), and never while a flag is still false.
C1_FiresOnceAfterLastPatch ==
    /\ fireCount <= 1
    /\ ready <=> fireCount = 1
    /\ ready => AllFlags
    /\ Len(patchOrder) = 3 =>
           /\ fireCount = 1
           /\ forced = 0 => firedBy = patchOrder[3]

C1_Witness ==
    /\ patchOrder = <<"sdk", "fonts", "baseEditorsApi">>
    /\ forced = 0
    /\ fireCount = 1
    /\ firedBy = "baseEditorsApi"

\* C2: the body of DesktopOfflineAppDocumentEndLoad never starts before the
\* completion signal has fired.  Called before, it waits as a listener of the
\* pending promise; called after, its reaction is queued without any wait.
C2_BodyOnlyAfterSignal ==
    /\ BodyStarted \/ notified["docLoad"] > 0 => ready
    /\ "docLoad" \in SeqRange(microtasks) => ready
    /\ started /\ ~ready => docPhase = "Waiting" /\ "docLoad" \in SeqRange(listeners)
    /\ started /\ ready /\ docPhase = "Waiting" => "docLoad" \in SeqRange(microtasks)

C2_Witness ==
    /\ docPhase = "Resolving"
    /\ duplicates = "waiting"
    /\ ready

\* C3: however often the entry point is called, one Resolving sequence runs at
\* most, and exactly one once the signal has fired; a call after the first
\* changes nothing of the program's state and keeps the first call's argument.
C3_SingleResolving ==
    /\ [](notified["docLoad"] <= 1)
    /\ [](started /\ ready /\ BetweenTasks => notified["docLoad"] = 1)
    /\ [][(started /\ \E d \in DataKinds : Invoke(d)) =>
              UNCHANGED <<win, now, overrideStatus, ready, listeners, microtasks,
                          watch, patched, started, docPhase, docData, editor,
                          lookup, events, steps, openCalls, notified,
                          uncaught>>]_vars

C3_Witness ==
    /\ duplicates = "waiting"
    /\ notified["docLoad"] = 1
    /\ docPhase = "Dispatched"

\* C4: under fair timers the completion signal eventually fires in every
\* execution, and a waiting document load eventually leaves Waiting.
C4_EventuallyReady ==
    /\ <>ready
    /\ (docPhase = "Waiting") ~> (docPhase # "Waiting")

\* C5: the completion signal is fulfilled exactly when all three flags are
\* true or a force-complete has occurred, and once fulfilled it stays so.
C5_FulfilledIffAllFlags ==
    /\ [](ready <=> (AllFlags \/ forced > 0))
    /\ [][ready => ready']_vars

C5_Witness ==
    /\ ready
    /\ firedBy = "timeout"
    /\ \E s \in Subsystems : patched[s] # "full"

\* The fast-path signature at initialisation: AscCommon present, its
\* baseEditorsApi absent.
FastPathSignature ==
    initWin["AscCommon"] = "plain" /\ initWin["baseEditorsApi"] = "undef"

\* C6: when the fast-path signature matches at initialisation, the signal has
\* fired by the end of initialisation, at time 0, and no watcher is ever armed
\* and no polling timer ever created.
C6_FastPathFiresAtInit ==
    FastPathSignature =>
        /\ ready
        /\ firedBy = "fastpath"
        /\ now = 0
        /\ timersCreated = 0
        /\ \A w \in Watchers : watch[w].phase = "idle"

C6_Witness ==
    /\ FastPathSignature
    /\ ready
    /\ AllFlags
    /\ timersCreated = 0

\* Watch w's timer callback has just run and left the timer set.
TickedOn(w) ==
    /\ watch[w].phase = "polling"
    /\ watch'[w].phase = "polling"
    /\ watch'[w].due # watch[w].due

\* C7: a watcher takes its timeout branch at the first poll tick at which the
\* time since the watch began exceeds the ceiling, hence within one polling
\* interval after the deadline and never before it; after that branch all three
\* flags are true and the signal has fired.
C7_TimeoutAtFirstTickPastDeadline ==
    [][\A w \in Watchers :
           /\ (watch[w].phase = "polling" /\ watch'[w].phase = "timeout") =>
                  /\ now' - watch[w].start > MaxWait
                  /\ now' - watch[w].start <= MaxWait + PollInterval
                  /\ \A s \in Subsystems : overrideStatus'[s]
                  /\ ready'
           /\ TickedOn(w) => now' - watch[w].start <= MaxWait]_vars

C7_Witness ==
    /\ watch["fonts"].phase = "timeout"
    /\ win["CFontFileLoader"] = "undef"
    /\ AllFlags
    /\ ready

\* C8: setting flags that are already true (a further force-complete, a patch
\* routine finishing after a force-complete) never fires the signal a second
\* time and never notifies a listener a second time.
C8_NoSecondFiring ==
    /\ [](fireCount <= 1 /\ \A j \in Jobs : notified[j] <= 1)
    /\ [][(ready /\ resolveCalls' # resolveCalls) =>
              /\ fireCount' = fireCount
              /\ microtasks' = microtasks
              /\ listeners' = listeners]_vars

C8_Witness ==
    /\ firedBy = "timeout"
    /\ forced >= 2
    /\ resolveCalls > forced
    /\ fireCount = 1
    /\ notified["encryption"] = 1

\* C9: a flag of overrideStatus that is true stays true.
C9_FlagsMonotonic ==
    [][\A s \in Subsystems : overrideStatus[s] => overrideStatus'[s]]_vars

C9_Witness ==
    /\ AllFlags
    /\ Len(patchOrder) >= 1
    /\ firedBy = "timeout"
    /\ forced >= 2

Applied(s) == patched[s] = "full"

\* C10 as stated: no Resolving step runs while some subsystem patches have been
\* applied and another has not.
C10_NeverPartiallyPatched ==
    docPhase = "Resolving" =>
        ~ \E s, t \in Subsystems : Applied(s) /\ ~Applied(t)

\* C10 as amended: a Resolving step runs only with all three flags true, and
\* with all three patches applied unless a force-complete has occurred.
C10_ResolvingAfterFlags ==
    docPhase = "Resolving" =>
        /\ AllFlags
        /\ forced = 0 => \A s \in Subsystems : Applied(s)

C10_Witness ==
    /\ docPhase = "Resolving"
    /\ forced = 0
    /\ \A s \in Subsystems : Applied(s)

----------------------------------------------------------------------------
\* The Resolving sequence

\* The sequence has run to an end.
SequenceEnded == docPhase \in {"Halted", "Dispatched", "Thrown"}

Done(step) == step \in SeqRange(steps)

\* C11: with an empty payload the sequence never looks up a buffer, never
\* decodes and never calls openDocument; when it reaches the payload test (an
\* editor exists and the session steps completed) it halts there having sent
\* exactly one asc_onError with ConvertationOpenError at level Critical.
C11_EmptyPayloadHalts ==
    (docData = "empty" /\ SequenceEnded) =>
        /\ openCalls = 0
        /\ lookup = "unread"
        /\ ~Done("GetOpenedFile") /\ ~Done("Uint8Array")
        /\ ~Done("getBinaryArray") /\ ~Done("openDocument")
        /\ Len(events) <= 1
        /\ Done("CheckUserId") =>
               /\ docPhase = "Halted"
               /\ events = <<ErrorEvent>>
               /\ steps = SessionSteps \o <<"asc_onError">>

C11_Witness ==
    /\ docData = "empty"
    /\ docPhase = "Halted"
    /\ events = <<ErrorEvent>>
    /\ openCalls = 0

\* C12: when GetOpenedFile returns nothing for a token, the sequence halts
\* having sent exactly one asc_onError, the same event as for an empty
\* payload, and openDocument is never called.
C12_FailedLookupHalts ==
    (docData = "token" /\ lookup = "none") =>
        /\ docPhase = "Halted"
        /\ events = <<ErrorEvent>>
        /\ events = ResolvingResult("present", "empty", "none", "none").events
        /\ openCalls = 0
        /\ ~Done("Uint8Array") /\ ~Done("getBinaryArray") /\ ~Done("openDocument")

C12_Witness ==
    /\ docData = "token"
    /\ lookup = "none"
    /\ docPhase = "Halted"
    /\ Done("GetOpenedFile")

\* C14 as stated: no failure inside the Resolving sequence leaves it as an
\* unhandled exception.
C14_NoUnhandledFailure == docPhase # "Thrown"

\* C15: without an editor the sequence halts at its first step: no event, no
\* base URL written, no timestamp, no user id, no lookup, no openDocument, no
\* follow-up scheduled.
C15_MissingEditorHalts ==
    editor = "absent" =>
        /\ docPhase = "Halted"
        /\ events = <<>>
        /\ steps = <<>>
        /\ ~Done("documentUrl") /\ ~Done("setOpenedAt") /\ ~Done("CheckUserId")
        /\ ~Done("openDocument") /\ ~Done("setTimeout")
        /\ openCalls = 0
        /\ lookup = "unread"

C15_Witness ==
    /\ editor = "absent"
    /\ docPhase = "Halted"
    /\ docData = "base64"
    /\ notified["docLoad"] = 1

\* C16: _documentLoadStarted is never reset, and after a load that halted a
\* further call of the entry point changes nothing: the load is not retried.
C16_StartedNeverReset ==
    /\ [][started => started']_vars
    /\ [](docPhase # "Uninvoked" => started)
    /\ [][docPhase = "Halted" =>
              /\ docPhase' = "Halted"
              /\ UNCHANGED <<started, docData, editor, lookup, events, steps,
                             openCalls, notified, listeners, microtasks>>]_vars

C16_Witness ==
    /\ docPhase = "Halted"
    /\ duplicates = "later"
    /\ started
    /\ notified["docLoad"] = 1

\* Listener j has been attached to _commonJsReady: setupEncryption by the
\* script (line 947, reached exactly when the entry point was defined), the
\* document load by the first call of the entry point.
Attached(j) == IF j = "docLoad" THEN started ELSE entryInstalled

\* C17: every listener attached to the completion signal, before or after it
\* fired, is notified exactly once: never twice, never before the signal, and
\* each of them once the signal has fired and the queued reactions have run.
C17_Multicast ==
    /\ \A j \in Jobs : notified[j] <= 1
    /\ \A j \in Jobs : notified[j] = 1 => Attached(j) /\ ready
    /\ (ready /\ BetweenTasks) => \A j \in Jobs : Attached(j) => notified[j] = 1

C17_Witness ==
    /\ notified["encryption"] = 1
    /\ notified["docLoad"] = 1
    /\ duplicates = "waiting"
    /\ firedBy \in Subsystems

----------------------------------------------------------------------------
\* Outcomes of the Path Watcher

\* C20: a waitForPath call has at most one outcome: its success callback and
\* its degrade branch (timeout, failed resolution) are run once at most
\* between them, and none while its timer is still set; a watch that timed
\* out never runs its callback, even with its path present.
C20_AtMostOneOutcome ==
    \A w \in Watchers :
        /\ callbacks[w] + degrades[w] <= 1
        /\ w \in timers => callbacks[w] + degrades[w] = 0
        /\ watch[w].phase \in {"timeout", "failed"} => callbacks[w] = 0

C20_Witness ==
    /\ watch["base"].phase = "timeout"
    /\ win["baseEditorsApi"] = "ctor"
    /\ callbacks["base"] = 0
    /\ degrades["base"] = 1

----------------------------------------------------------------------------
\* The base URL

Chars(s) == {s[i] : i \in 1..Len(s)}

\* A Windows drive-letter path: a letter, a colon, a separator.
DriveLetterPath(s) ==
    /\ Len(s) >= 3
    /\ s[1] \in Letters
    /\ s[2] = ":"
    /\ s[3] \in {"/", "\\"}

\* A file-system-style locator: a drive-letter path, or a path without any
\* colon.
FileSystemLocator(s) == DriveLetterPath(s) \/ ":" \notin Chars(s)

\* The locator with a leading separator ensured and file:// prefixed.
AsFileUrl(s) == FileScheme \o (IF StartsWithSlash(s) THEN s ELSE <<"/">> \o s)

\* C13 as stated: without an override, every file-system-style locator,
\* drive-letter paths included, resolves to file:// followed by the locator
\* with a leading separator ensured.
C13_FileSchemePrefixed ==
    (urlDone /\ overrideArg = <<>> /\ FileSystemLocator(urlArg)) =>
        /\ documentUrl = AsFileUrl(urlArg)
        /\ effectiveUrl = AsFileUrl(urlArg)

----------------------------------------------------------------------------
\* The Property Watcher

\* C18: on a property without an accessor of another party, the first write
\* after waitForProperty calls the callback exactly once with the written
\* value, the interception being removed first: the callback's own write and
\* every later write are ordinary writes, and the property reads as the value
\* written last.  When the property already has a value, the callback is
\* called inside waitForProperty and no interception (and no timer) is set.
C18_FirstWriteOnly ==
    /\ [](\A w \in PWatchers : Len(pCalls[w]) <= 1)
    /\ [](pDesc = "data" /\ pLast # "never" => pVal = pLast)
    /\ [][\A v \in PValues :
              /\ (pDesc = "hook" /\ PropWrite(v)) =>
                     /\ pCalls'[pHookOwner] = <<v>>
                     /\ pDesc' = "data"
                     /\ pHookOwner' = 0
                     /\ pVal' = IF pCbWrite[pHookOwner] = "nowrite" THEN v
                                ELSE pCbWrite[pHookOwner]
              /\ (pDesc = "data" /\ PropWrite(v)) =>
                     /\ pCalls' = pCalls
                     /\ pDesc' = "data"
                     /\ pVal' = v]_vars
    /\ [][\A w \in PWatchers :
              (pVal # "undef" /\ Arm(w)) =>
                  /\ pCalls'[w] = <<pVal>>
                  /\ pHookOwner' = pHookOwner
                  /\ pDesc' = pDesc
                  /\ pTimers' = pTimers]_vars

C18_Witness ==
    /\ pCalls[1] = <<"a">>
    /\ pPhase[1] = "done"
    /\ pCbWrite[1] = "b"
    /\ pDesc = "data"
    /\ pVal = "b"
    /\ pLast = "b"
    /\ pPhase[2] = "unarmed"

\* C19 as stated, for the Property Watcher: no timer is set whose watch has
\* delivered its value, and under fair timers every timer that is set is
\* eventually cleared.
C19_TimersEventuallyCleared ==
    /\ [](\A w \in PWatchers : w \in pTimers => pCalls[w] = <<>>)
    /\ \A w \in PWatchers : (w \in pTimers) ~> (w \notin pTimers)

----------------------------------------------------------------------------
\* The Path Watcher's callback

\* The value the success callback of watch w is called with: what the last
\* segment of its path holds (line 148; a value once assigned stays).
CallbackValue(w) == win[Parts(w)[Len(Parts(w))]]

\* C21 as stated: the success callback of a watch is called only with an
\* existing object, never with undefined or null, and never by a watch that
\* took its timeout or failed-resolution branch.
C21_CallbackOnlyWithObject ==
    \A w \in Watchers :
        callbacks[w] > 0 =>
            /\ CallbackValue(w) \notin {"undef", "null"}
            /\ degrades[w] = 0

----------------------------------------------------------------------------
\* The order of the load

\* The observable steps of a load that opens the document, in source order
\* (lines 603-657 and 865-879).
LoadOrder ==
    <<"documentUrl", "setOpenedAt", "CheckUserId", "openDocument",
      "asc_SetFastCollaborative", "setTimeout", "DesktopAfterOpen",
      "asc_onSpellCheckInit", "asc_onDocumentPassword">>

InLoadOrder(step) == step \in SeqRange(LoadOrder)

IsPrefix(p, q) == Len(p) <= Len(q) /\ p = SubSeq(q, 1, Len(p))

\* C22: in a load that reaches openDocument the observable steps occur in the
\* order base URL, timestamp, user id, openDocument, fast-collaborative off,
\* title follow-up scheduled, post-open hook with its spell-check event,
\* password event (all of them when the load completes), and they are made in
\* one run: no watcher tick, patch routine or assignment falls between them.
C22_StepsInOrder ==
    /\ [](Done("openDocument") => IsPrefix(SelectSeq(steps, InLoadOrder), LoadOrder))
    /\ [](docPhase = "Dispatched" => SelectSeq(steps, InLoadOrder) = LoadOrder)
    /\ [][steps' # steps =>
              /\ steps = <<>>
              /\ docPhase = "Resolving"
              /\ docPhase' # "Resolving"
              /\ UNCHANGED <<win, now, watch, patched, overrideStatus, timers,
                             callbacks, degrades, microtasks, ready>>]_vars

C22_Witness ==
    /\ docPhase = "Dispatched"
    /\ Len(steps) = 11
    /\ steps[4] = "GetOpenedFile"
    /\ \E w \in Watchers : TimerActive(w)

----------------------------------------------------------------------------
\* The title follow-up

\* The places of the events named n in the events sent so far.
Sent(n) == {i \in 1..Len(events) : events[i].name = n}

\* C23: the title follow-up never runs inside the run that schedules it, so
\* the spell-check and password events are sent while it is still pending;
\* asc_onDocumentName is sent only by the follow-up's second timer, after the
\* run has ended, at most once, and after the password event of that load.
C23_NameAfterPassword ==
    /\ [](Sent("asc_onDocumentName") # {} =>
              /\ SequenceEnded
              /\ titlePhase = "sent"
              /\ Sent("asc_onDocumentName") = {Len(events)}
              /\ docPhase = "Dispatched" =>
                     \E i \in Sent("asc_onDocumentPassword") : i < Len(events))
    /\ [](docPhase = "Dispatched" =>
              /\ Sent("asc_onSpellCheckInit") # {}
              /\ Sent("asc_onDocumentPassword") # {})
    /\ [][docPhase = "Resolving" => titlePhase' = "idle" /\ titlePhase = "idle"]_vars
    /\ [][events' # events /\ docPhase # "Resolving" =>
              titlePhase = "named" /\ titlePhase' = "sent"]_vars

C23_Witness ==
    /\ docPhase = "Dispatched"
    /\ titlePhase = "sent"
    /\ Len(events) = 3
    /\ events[2].name = "asc_onDocumentPassword"
    /\ events[3].name = "asc_onDocumentName"

\* The substring after the last separator, backslash or forward slash; the
\* whole path when it has none.
FinalSegment(path) ==
    LET I == {i \in 1..Len(path) : path[i] \in {"\\", "/"}}
    IN  IF I = {} THEN path
        ELSE SubSeq(path, (CHOOSE i \in I : \A j \in I : j <= i) + 1, Len(path))

\* C24 as stated: the display title is the final segment of the source path,
\* for paths with backslashes, forward slashes or both.
C24_TitleIsFinalSegment ==
    titlePhase # "idle" => documentTitle = FinalSegment(sourcePath)

----------------------------------------------------------------------------
\* The override base URL

\* C25: with a non-empty override, the base URL written and the url of the
\* opened file are the override without its last character when that is a
\* "/", the override itself otherwise, whatever the locator is; nothing is
\* prefixed.
C25_OverrideVerbatim ==
    (urlDone /\ overrideArg # <<>>) =>
        LET n == Len(overrideArg)
            expected == IF overrideArg[n] = "/"
                        THEN [i \in 1..(n - 1) |-> overrideArg[i]]
                        ELSE overrideArg
        IN  documentUrl = expected /\ effectiveUrl = expected

C25_Witness ==
    /\ urlDone
    /\ overrideArg = <<"/", "/">>
    /\ urlArg = <<"C", ":", "/">>
    /\ documentUrl = <<"/">>
    /\ effectiveUrl = <<"/">>

----------------------------------------------------------------------------
\* A halted load

\* C26: a load halted by the open error (empty payload, failed lookup) has
\* made none of the later steps: no openDocument, no change of the
\* fast-collaborative mode, no title follow-up scheduled, no post-open hook,
\* no spell-check or password event; the base URL, the timestamp and the user
\* id of the earlier steps are in place.
C26_HaltSkipsLaterSteps ==
    (docPhase = "Halted" /\ Sent("asc_onError") # {}) =>
        /\ openCalls = 0
        /\ \A st \in SeqRange(OpenSteps \o FinalSteps) : ~Done(st)
        /\ Sent("asc_onSpellCheckInit") = {}
        /\ Sent("asc_onDocumentPassword") = {}
        /\ titlePhase = "idle"
        /\ Len(steps) >= 3
        /\ SubSeq(steps, 1, 3) = SessionSteps

C26_Witness ==
    /\ docPhase = "Halted"
    /\ docData = "token"
    /\ Done("asc_onError")
    /\ Done("documentUrl") /\ Done("setOpenedAt") /\ Done("CheckUserId")
    /\ ~Done("setTimeout")

----------------------------------------------------------------------------
\* A failed path

\* C27: a watch that meets a null or undefined intermediate object while
\* segments remain never calls its success callback and sets no timer; the
\* step in which it fails leaves all three flags true and the signal fired.
C27_FailedPathForceCompletes ==
    /\ [](\A w \in Watchers :
              (watch[w].phase # "idle" /\ win[Parts(w)[1]] = "null") =>
                  \/ watch[w].phase \in {"failed", "timeout"}
                  \/ watch[w].phase = "polling" /\ watch[w].idx = 0)
    /\ [](\A w \in Watchers :
              watch[w].phase = "failed" =>
                  /\ callbacks[w] = 0
                  /\ degrades[w] = 1
                  /\ ~TimerActive(w)
                  /\ AllFlags
                  /\ ready)
    /\ [][\A w \in Watchers :
              (watch[w].phase # "failed" /\ watch'[w].phase = "failed") =>
                  /\ callbacks' = callbacks
                  /\ timersCreated' = timersCreated
                  /\ ~TimerActive(w)'
                  /\ AllFlags'
                  /\ ready'
                  /\ forced' = forced + 1]_vars

C27_Witness ==
    /\ watch["fonts"].phase = "failed"
    /\ initWin["AscFonts"] = "undef"
    /\ win["AscFonts"] = "null"
    /\ firedBy = "failed"
    /\ callbacks["fonts"] = 0

----------------------------------------------------------------------------
\* Paths present when the script runs

\* Both segments of w's path held a value when the script ran.
PresentAtInit(w) ==
    Defined(initWin[Parts(w)[1]]) /\ Defined(initWin[Parts(w)[2]])

\* C28: a watch whose whole path exists when waitForPath is called has called
\* its success callback inside that call and has never set a timer; when all
\* four watched objects exist as the script runs, the three flags are true
\* and the signal has fired when the script ends, without any timer and
\* without a force-complete.
C28_SynchronousWhenPresent ==
    /\ \A w \in Watchers :
           (watch[w].phase # "idle" /\ PresentAtInit(w)) =>
               /\ watch[w].phase = "success"
               /\ callbacks[w] = 1
               /\ ~TimerActive(w)
    /\ (\A p \in Props : Truthy(initWin[p])) =>
           /\ AllFlags
           /\ ready
           /\ fireCount = 1
           /\ forced = 0
           /\ timersCreated = 0
           /\ now = 0
           /\ \A w \in Watchers : callbacks[w] = 1

C28_Witness ==
    /\ initWin = LoadedWindow
    /\ docPhase = "Uninvoked"
    /\ ready
    /\ patchOrder = <<"baseEditorsApi", "fonts", "sdk">>
    /\ watch["coapi"].phase = "success"
    /\ timersCreated = 0

----------------------------------------------------------------------------
\* The Property Watcher's fallback and its missing target

\* C29: when the property has an accessor of another party and reads as
\* undefined, waitForProperty leaves the descriptor as it is and sets a timer;
\* a tick that reads undefined does nothing, the first tick that reads a value
\* calls the callback with it and clears the timer, and the callback is never
\* called again.
C29_AccessorFallbackPolls ==
    /\ [][pDesc = "foreign" => pDesc' = "foreign" /\ pHookOwner' = 0]_vars
    /\ [](\A w \in PWatchers :
              pDesc = "foreign" =>
                  /\ Len(pCalls[w]) <= 1
                  /\ w \in pTimers <=> pPhase[w] = "polling"
                  /\ w \in pTimers => pCalls[w] = <<>>)
    /\ [][\A w \in PWatchers :
              /\ (pDesc = "foreign" /\ pVal = "undef" /\ Arm(w)) =>
                     /\ pTimers' = pTimers \cup {w}
                     /\ pCalls' = pCalls
              /\ (pDesc = "foreign" /\ pVal = "undef" /\ PropTick(w)) =>
                     /\ pTimers' = pTimers
                     /\ pCalls' = pCalls
              /\ (pDesc = "foreign" /\ pVal # "undef" /\ PropTick(w)) =>
                     /\ pTimers' = pTimers \ {w}
                     /\ pCalls'[w] = <<pVal>>]_vars

C29_Witness ==
    /\ pDesc = "foreign"
    /\ pPhase[1] = "done"
    /\ pCalls[1] = <<"a">>
    /\ pTimers = {}
    /\ pTicks = 1
    /\ pLast = "a"

\* C30: with a missing target waitForProperty returns without an error: the
\* callback is never called, no interception is installed and no timer set.
C30_MissingTargetNoOp ==
    pObj = "missing" =>
        /\ \A w \in PWatchers : pPhase[w] \in {"unarmed", "noop"}
        /\ \A w \in PWatchers : pCalls[w] = <<>>
        /\ pDesc = "absent"
        /\ pHookOwner = 0
        /\ pTimers = {}

C30_Witness ==
    /\ pObj = "missing"
    /\ pPhase[1] = "noop"
    /\ pPhase[2] = "noop"
    /\ pTimers = {}

----------------------------------------------------------------------------
\* The fast path is decided once

\* AscCommon was absent when the script ran, and the SDK's base class has not
\* appeared since (it is missing, or holds a falsy value).
LateSdkWithoutBase ==
    /\ initWin["AscCommon"] = "undef"
    /\ ~Truthy(win["baseEditorsApi"])

----------------------------------------------------------------------------
\* Watchers after a force-complete

\* C32: the tick in which a watch times out clears that watch's timer only:
\* every other watch keeps its timer, its segment and its deadline; and a
\* later tick of such a watch that finds its property, its own ceiling not
\* exceeded, goes on resolving and calls its callback, whether or not the
\* signal has fired and whatever the document load has done.
C32_TimeoutLeavesOtherWatchers ==
    /\ [][\A w \in Watchers :
              (watch[w].phase = "polling" /\ watch'[w].phase = "timeout") =>
                  /\ timers' = timers \ {w}
                  /\ \A v \in Watchers \ {w} : watch'[v] = watch[v]
                  /\ callbacks' = callbacks
                  /\ patched' = patched]_vars
    /\ [][(ready /\ SequenceEnded /\ watch["coapi"].phase = "polling"
              /\ win["CDocsCoApi"] = "ctor" /\ win["DocumentUrls"] = "ctor"
              /\ ~TimedOut(watch["coapi"].due, watch["coapi"].start)
              /\ Tick("coapi")) =>
                  /\ watch'["coapi"].phase = "success"
                  /\ callbacks'["coapi"] = 1
                  /\ patched["sdk"] = "none"
                  /\ patched'["sdk"] = "full"]_vars

\* The signal fired by a timeout, the document opened, and the third patch
\* routine still to run at the next tick of its watch.
C32_Witness ==
    /\ firedBy = "timeout"
    /\ docPhase = "Dispatched"
    /\ watch["base"].phase = "timeout"
    /\ watch["coapi"].phase = "polling"
    /\ win["CDocsCoApi"] = "ctor"
    /\ win["DocumentUrls"] = "ctor"
    /\ ~TimedOut(watch["coapi"].due, watch["coapi"].start)
    /\ patched["sdk"] = "none"

----------------------------------------------------------------------------
\* The nested watch

\* C33 as stated: the sdk flag is set by its patch routine only after the
\* watches of DocumentUrls and of CDocsCoApi have both succeeded; and when the
\* fast path is not taken the signal fires, no later than two ceilings plus
\* two polling intervals after the script ran.
C33_FiresWithinTwoCeilings ==
    /\ [](patched["sdk"] = "full" =>
              watch["docurls"].phase = "success" /\ watch["coapi"].phase = "success")
    /\ [](watch["coapi"].phase # "idle" => watch["docurls"].phase = "success")
    /\ [][~ready /\ ready' => now' <= 2 * MaxWait + 2 * PollInterval]_vars
    /\ [](~isMinifiedSdk => <>ready)

----------------------------------------------------------------------------
\* One load per page

\* C34: however often the entry point is called, openDocument is called at
\* most once and the open error is sent at most once, never both; the
\* password event is sent only when openDocument was called.
C34_OneOpenOrOneError ==
    /\ openCalls <= 1
    /\ Cardinality(Sent("asc_onError")) <= 1
    /\ ~(openCalls = 1 /\ Sent("asc_onError") # {})
    /\ Cardinality(Sent("asc_onDocumentPassword")) <= openCalls
    /\ openCalls = 1 <=> Done("openDocument")

C34_Witness ==
    /\ duplicates # "none"
    /\ openCalls = 1
    /\ Sent("asc_onDocumentPassword") = {2}
    /\ Sent("asc_onError") = {}
    /\ notified["docLoad"] = 1

----------------------------------------------------------------------------
\* The entry point and the fast path

\* C35 as stated: the entry point is installed exactly when the fast-path
\* signature was not detected; when it was detected the load stays Uninvoked
\* although the signal has fired.
C35_EntryIffNotFastPath ==
    /\ entryInstalled <=> ~isMinifiedSdk
    /\ isMinifiedSdk => docPhase = "Uninvoked" /\ ~started /\ ready

----------------------------------------------------------------------------
\* Timeout before presence

\* The subsystem patched by the callback chain of watch w.
SubsystemOf(w) ==
    CASE w = "base" -> "baseEditorsApi"
      [] w = "fonts" -> "fonts"
      [] w = "docurls" -> "sdk"
      [] w = "coapi" -> "sdk"

\* C36: a tick of watch w that finds the ceiling exceeded takes the timeout
\* branch even when the awaited property is present: the flags are forced,
\* the callback of w is not called, then or later, and the subsystem's patch
\* is never applied.
C36_TimeoutBeforePresence ==
    /\ [][\A w \in Watchers :
              (/\ watch[w].phase = "polling"
               /\ Defined(win[Parts(w)[watch[w].idx + 1]])
               /\ TimedOut(watch[w].due, watch[w].start)
               /\ Tick(w)) =>
                  /\ watch'[w].phase = "timeout"
                  /\ callbacks' = callbacks
                  /\ patched' = patched
                  /\ forced' = forced + 1
                  /\ AllFlags'
                  /\ ready']_vars
    /\ [](\A w \in Watchers :
              watch[w].phase = "timeout" =>
                  /\ callbacks[w] = 0
                  /\ patched[SubsystemOf(w)] # "full")

C36_Witness ==
    /\ watch["base"].phase = "timeout"
    /\ win["AscCommon"] = "plain"
    /\ win["baseEditorsApi"] = "ctor"
    /\ patched["baseEditorsApi"] = "none"
    /\ overrideStatus["baseEditorsApi"]

----------------------------------------------------------------------------
\* Two Property Watchers on one property

\* The first write has been made (the interception is gone) and watcher w,
\* armed while the interception was in place, has its timer set.
PollingAfterFirstWrite(w) == pDesc = "data" /\ w \in pTimers

\* C37 as stated: after the first write the second callback is called at its
\* next tick.
C37_SecondFiresAtNextTick ==
    [][\A w \in PWatchers :
           (PollingAfterFirstWrite(w) /\ PropTick(w)) =>
               /\ Len(pCalls'[w]) = 1
               /\ w \notin pTimers']_vars

\* C37 as amended: a second waitForProperty on a property that carries the
\* interception of a first one sets a timer and leaves that interception in
\* place; the first write calls the first callback inside the write and not
\* the second, which is called at its next tick at which the property reads
\* as defined (not at a tick at which it reads undefined, as after a write of
\* undefined); neither is called twice.
C37_SecondWatcherPolls ==
    /\ [](\A w \in PWatchers : Len(pCalls[w]) <= 1)
    /\ [][\A w \in PWatchers :
              (pDesc = "hook" /\ pHookOwner # w /\ Arm(w)) =>
                  /\ pDesc' = "hook"
                  /\ pHookOwner' = pHookOwner
                  /\ pTimers' = pTimers \cup {w}
                  /\ pCalls' = pCalls]_vars
    /\ [][\A v \in PValues :
              (pDesc = "hook" /\ PropWrite(v)) =>
                  /\ pCalls'[pHookOwner] = <<v>>
                  /\ \A w \in PWatchers \ {pHookOwner} : pCalls'[w] = pCalls[w]
                  /\ pTimers' = pTimers]_vars
    /\ [][\A w \in PWatchers :
              /\ (PollingAfterFirstWrite(w) /\ pVal # "undef" /\ PropTick(w)) =>
                     /\ pCalls'[w] = <<pVal>>
                     /\ w \notin pTimers'
              /\ (PollingAfterFirstWrite(w) /\ pVal = "undef" /\ PropTick(w)) =>
                     /\ pCalls'[w] = <<>>
                     /\ w \in pTimers']_vars

C37_Witness ==
    /\ pPhase = <<"done", "done">>
    /\ pCalls = << <<"a">>, <<"a">> >>
    /\ pCbWrite = <<"nowrite", "nowrite">>
    /\ pDesc = "data"
    /\ pTimers = {}
    /\ pLast = "a"

----------------------------------------------------------------------------

\* C38: without an override, a locator that carries a URI scheme is used
\* unchanged, a schemeless one becomes file:// followed by the locator with a
\* leading separator added only if missing, and resolving the result again
\* gives the same result.
C38_ResolutionIdempotent ==
    (urlDone /\ overrideArg = <<>>) =>
        /\ HasScheme(urlArg) => documentUrl = urlArg
        /\ ~HasScheme(urlArg) => documentUrl = AsFileUrl(urlArg)
        /\ HasScheme(documentUrl)
        /\ ResolveDocumentUrl(documentUrl, <<>>) = documentUrl
        /\ effectiveUrl = documentUrl

\* A schemeless relative locator has been resolved.
C38_Witness ==
    /\ urlDone
    /\ overrideArg = <<>>
    /\ urlArg = <<"C", "/", "C">>
    /\ documentUrl = FileScheme \o <<"/", "C", "/", "C">>

----------------------------------------------------------------------------
\* The patched LoadFontAsync

\* C39: a font file is sent at most one request; a call of LoadFontAsync
\* with Status -1 sends a request and sets Status to 2; a call with any
\* other Status sends none and returns true; an answer with status 200 sets
\* Status to 0 and invokes the stored callback (the one of the latest call,
\* when it is not null); any other answer sets Status to 1 and invokes
\* nothing; Status never becomes -1 again.
C39_OneRequestPerFontFile ==
    /\ [](\A f \in Fonts :
              /\ fontRequests[f] <= 1
              /\ fontRequests[f] = 0 <=> Status[f] = NotLoaded
              /\ f \in fontInFlight <=> Status[f] = Loading)
    /\ [][\A f \in Fonts, cb \in FontCallbacks :
              CallLoadFontAsync(f, cb) =>
                  /\ fontCallback'[f] = cb
                  /\ Status[f] = NotLoaded =>
                         /\ Status'[f] = Loading
                         /\ fontRequests'[f] = fontRequests[f] + 1
                  /\ Status[f] # NotLoaded =>
                         /\ Status'[f] = Status[f]
                         /\ fontRequests' = fontRequests
                         /\ fontInFlight' = fontInFlight
                         /\ fontReturned'[f] = "true"
                  /\ fontInvoked' = fontInvoked]_vars
    /\ [][\A f \in Fonts :
              /\ FontResponse(f, HttpOk) =>
                     /\ Status'[f] = Loaded
                     /\ fontCallback[f] # "null" =>
                            /\ Len(fontInvoked'[f]) >= 1
                            /\ fontInvoked'[f][1] = fontCallback[f]
                     /\ fontCallback[f] = "null" =>
                            \A i \in 1..Len(fontInvoked'[f]) :
                                fontInvoked'[f][i] \notin FontCallbacks
              /\ \A status \in HttpStatuses \ {HttpOk} :
                     FontResponse(f, status) =>
                         /\ Status'[f] = LoadFailed
                         /\ fontInvoked' = fontInvoked
              /\ Status[f] # NotLoaded => Status'[f] # NotLoaded]_vars

\* Font file 1 was asked three times and answered with 200: one request, the
\* callback of the latest call invoked once, the later calls returned true.
C39_Witness ==
    /\ fontCalls = 3
    /\ Status[1] = Loaded
    /\ fontRequests[1] = 1
    /\ fontCallback[1] = "cbB"
    /\ fontInvoked[1] = <<"cbB">>
    /\ fontReturned[1] = "true"
    /\ Status[2] = NotLoaded

====
